---- MODULE Spec2Model ----
(***************************************************************************)
(* Model of kubeflow/training-operator/resnet50/util.py: the two training  *)
(* procedures (train_mixed_precision, train_epoch), the evaluation pass    *)
(* (test), the top-k metric (accuracy) and the samplers built by load_data.*)
(*                                                                         *)
(* The procedures are sequential: each action below is one whole call      *)
(* prologue or one whole iteration of a procedure's loop, and it appends   *)
(* the framework calls the iteration makes, in source order, to `calls`.   *)
(* Framework calls are taken to return normally; floating-point values are *)
(* exact rationals <<numerator, denominator>>.                             *)
(***************************************************************************)
EXTENDS Integers, Sequences, FiniteSets, TLC

VARIABLES
    proc,          \* the procedure under execution: "mixed", "full", "test"
    pc,            \* "idle" (between calls), "loop" (inside the for loop)
    sizes,         \* the loader: len(data) of each batch, in order
    log_interval,  \* argument log_interval
    use_cuda,      \* argument use_cuda
    wandb_run,     \* TRUE iff a dashboard run is supplied
    epoch,         \* argument epoch of the current (or last) call
    batch_idx,     \* enumerate() index of the next batch
    calls,         \* framework calls of the current invocation, in order
    wandb_log,     \* every wandb_run.log call so far (all invocations)
    console,       \* every print so far (all invocations)
    params,        \* number of parameter updates applied to the model
    opt_state,     \* number of optimizer state changes (zero_grad, step)
    model_mode,    \* "train" or "eval" (model.train() / model.eval())
    acc1, acc5,    \* test's accumulators
    shard_n,       \* examples the test loader has yielded in this call
    shard_top1,    \* of those, how many have the label as the top score
    shard_top5,    \* of those, how many have the label among the top 5
    a_output,      \* accuracy: argument output (one score row per example)
    a_target,      \* accuracy: argument target, [ndim, val]
    a_topk,        \* accuracy: argument topk
    a_res,         \* accuracy: the returned list
    a_pc,          \* accuracy: "call" or "done"
    train_len,     \* load_data: len(train_dataset)
    test_len,      \* load_data: len(test_dataset)
    world_size,    \* load_data: argument world_size
    train_perm,    \* the shuffle of the train sampler (seed + epoch)
    test_perm,     \* the shuffle of the test sampler (seed + epoch)
    train_shard,   \* rank -> indices its train sampler yields, or <<-1>>
    test_shard     \* rank -> indices its test sampler yields, or <<-1>>

procVars == <<proc, pc, sizes, log_interval, use_cuda, wandb_run, epoch,
              batch_idx, calls, wandb_log, console, params, opt_state,
              model_mode, acc1, acc5, shard_n, shard_top1, shard_top5>>
accVars == <<a_output, a_target, a_topk, a_res, a_pc>>
dataVars == <<train_len, test_len, world_size, train_perm, test_perm,
              train_shard, test_shard>>
vars == <<procVars, accVars, dataVars>>

(***************************************************************************)
(* Bounds of the model.                                                    *)
(***************************************************************************)
MaxBatches == 2        \* batches of a loader
MaxBatchSize == 2      \* examples of a batch
MaxEpochs == 2         \* calls of a procedure, epochs 1..MaxEpochs
MaxLogInterval == 2    \* log_interval in 1..MaxLogInterval
NumClasses == 6        \* classes of the model's output (more than max(topk))
MaxAccBatch == 2       \* examples of a batch given to accuracy directly
MaxDataset == 4        \* examples of a dataset given to load_data
MaxWorld == 3          \* world_size in 1..MaxWorld

Classes == 0 .. (NumClasses - 1)

(***************************************************************************)
(* Arithmetic helpers.                                                     *)
(***************************************************************************)
RECURSIVE GCD(_, _)
GCD(a, b) == IF b = 0 THEN a ELSE GCD(b, a % b)

\* Python float values, as exact rationals in lowest terms.
Rat(n, d) == LET g == GCD(n, d) IN IF n = 0 THEN <<0, 1>> ELSE <<n \div g, d \div g>>
RatAdd(x, y) == Rat(x[1] * y[2] + y[1] * x[2], x[2] * y[2])
RatDiv(x, n) == Rat(x[1], x[2] * n)
RatLeq(x, y) == x[1] * y[2] <= y[1] * x[2]
RatEq(x, y) == x[1] * y[2] = y[1] * x[2]

RECURSIVE SeqMax(_)
SeqMax(s) == IF Len(s) = 1 THEN s[1]
             ELSE LET m == SeqMax(Tail(s)) IN IF s[1] >= m THEN s[1] ELSE m

CeilDiv(a, b) == (a + b - 1) \div b

RECURSIVE Repeat(_, _)
Repeat(s, n) == IF n = 0 THEN <<>> ELSE s \o Repeat(s, n - 1)

RECURSIVE Perms(_)
Perms(S) == IF S = {} THEN {<<>>}
            ELSE UNION {{<<x>> \o p : p \in Perms(S \ {x})} : x \in S}

Range(s) == {s[i] : i \in 1 .. Len(s)}

(***************************************************************************)
(* load_data: the two DistributedSampler objects, built with the defaults  *)
(* shuffle=True, seed=0, drop_last=False.  An index list is a sequence of  *)
(* dataset indices 0..n-1; position p of the sequence is Python index p-1. *)
(***************************************************************************)
\* DistributedSampler.num_samples (and __len__) with drop_last=False
NumSamples(n, w) == CeilDiv(n, w)

\* DistributedSampler.total_size
TotalSize(n, w) == NumSamples(n, w) * w

\* __iter__, drop_last=False: pad the shuffled list up to total_size
PaddedIndices(indices, total) ==
    LET padding_size == total - Len(indices) IN
    IF padding_size <= Len(indices)
    THEN indices \o SubSeq(indices, 1, padding_size)
    ELSE indices \o SubSeq(Repeat(indices, CeilDiv(padding_size, Len(indices))),
                           1, padding_size)

\* the slice indices[0:total_size:num_replicas], which leaves the rank out
RankBlindIndices(indices, rank, total, w) ==
    [j \in 1 .. (total \div w) |-> indices[(j - 1) * w + 1]]

\* __iter__: indices[rank:total_size:num_replicas]
StridedIndices(indices, rank, total, w) ==
    [j \in 1 .. (total \div w) |-> indices[rank + (j - 1) * w + 1]]

\* list(DistributedSampler(dataset, num_replicas=w, rank=rank)) for shuffle perm
SamplerIndices(perm, w, rank) ==
    LET total == TotalSize(Len(perm), w) IN
    StridedIndices(PaddedIndices(perm, total), rank, total, w)

Unbuilt == <<-1>>

InitData ==
    /\ train_len \in 1 .. MaxDataset
    /\ test_len \in 1 .. MaxDataset
    /\ world_size \in 1 .. MaxWorld
    /\ train_perm \in Perms(0 .. (train_len - 1))
    /\ test_perm \in Perms(0 .. (test_len - 1))
    /\ train_shard = [r \in 0 .. (world_size - 1) |-> Unbuilt]
    /\ test_shard = [r \in 0 .. (world_size - 1) |-> Unbuilt]

IdleData ==
    /\ train_len = 1 /\ test_len = 1 /\ world_size = 1
    /\ train_perm = <<0>> /\ test_perm = <<0>>
    /\ train_shard = [r \in {0} |-> Unbuilt]
    /\ test_shard = [r \in {0} |-> Unbuilt]

\* the worker of rank `rank` calls load_data and iterates its two samplers
LoadData(rank) ==
    /\ train_shard[rank] = Unbuilt
    /\ train_shard' = [train_shard EXCEPT ![rank] = SamplerIndices(train_perm, world_size, rank)]
    /\ test_shard' = [test_shard EXCEPT ![rank] = SamplerIndices(test_perm, world_size, rank)]
    /\ UNCHANGED <<train_len, test_len, world_size, train_perm, test_perm>>
    /\ UNCHANGED <<procVars, accVars>>

(***************************************************************************)
(* accuracy(output, target, topk=(1, 5)).  output is a sequence of score   *)
(* rows (functions Classes -> Int), one per example.  torch.topk and       *)
(* torch.max leave the choice among equal entries open: the action draws   *)
(* every outcome they can produce.                                         *)
(***************************************************************************)
\* indices a max over `S` of `row` may return
ArgmaxIn(row, S) == {c \in S : \A d \in S : row[d] <= row[c]}

\* output.topk(k, 1, True, True) for one row: k indices, largest first, sorted
RECURSIVE TopkFrom(_, _, _)
TopkFrom(row, S, k) ==
    IF k = 0 THEN {<<>>}
    ELSE UNION {{<<c>> \o t : t \in TopkFrom(row, S \ {c}, k - 1)} : c \in ArgmaxIn(row, S)}

TopkRow(row, k) == TopkFrom(row, Classes, k)

\* _, pred = output.topk(maxk, 1, True, True): one index list per example
RECURSIVE PredChoices(_, _)
PredChoices(output, maxk) ==
    IF output = <<>> THEN {<<>>}
    ELSE {<<p>> \o rest : p \in TopkRow(output[1], maxk),
                         rest \in PredChoices(Tail(output), maxk)}

\* if target.ndim == 2: target = target.max(dim=1)[1]
RECURSIVE TargetLabels(_)
TargetLabels(target) ==
    IF target.ndim = 1 THEN {target.val}
    ELSE IF target.val = <<>> THEN {<<>>}
    ELSE {<<l>> \o rest : l \in ArgmaxIn(target.val[1], Classes),
                         rest \in TargetLabels([ndim |-> 2, val |-> Tail(target.val)])}

\* correct = pred.t().eq(target[None]): correct[k][i], k-th prediction of example i
Correct(pred, labels) ==
    [k \in 1 .. (IF pred = <<>> THEN 0 ELSE Len(pred[1])) |->
        [i \in 1 .. Len(pred) |-> pred[i][k] = labels[i]]]

\* correct.flatten().sum(): the sum over all maxk rows, whatever k is
CorrectAll(correct, k) ==
    Cardinality({<<r, i>> \in (1 .. Len(correct)) \X (1 .. Len(correct[1])) : correct[r][i]})

\* correct[:k].flatten().sum()
CorrectK(correct, k) ==
    Cardinality({<<r, i>> \in (1 .. k) \X (1 .. Len(correct[1])) : correct[r][i]})

\* the list res, for the drawn pred and labels
AccuracyRes(pred, labels, topk) ==
    LET batch_size == Len(labels)
        correct == Correct(pred, labels)
    IN [j \in 1 .. Len(topk) |-> Rat(CorrectK(correct, topk[j]) * 100, batch_size)]

\* the score rows and targets the accuracy specification draws from
RowAsc == [c \in Classes |-> c]
RowDesc == [c \in Classes |-> NumClasses - 1 - c]
RowTopTie == [c \in Classes |-> IF c <= 1 THEN NumClasses ELSE NumClasses - c]
RowFifthTie == [c \in Classes |-> IF c <= 3 THEN NumClasses + 1 - c ELSE IF c <= 5 THEN 1 ELSE 0]
Rows == {RowAsc, RowDesc, RowTopTie, RowFifthTie}
OneHot(l) == [c \in Classes |-> IF c = l THEN 1 ELSE 0]
TwoHot == [c \in Classes |-> IF c = 0 \/ c = NumClasses - 1 THEN 1 ELSE 0]
TargetRows == {OneHot(l) : l \in Classes} \cup {TwoHot}
TopkArgs == {<<1, 5>>, <<1>>, <<5, 2>>}
DefaultTopk == <<1, 5>>

InitAcc ==
    /\ a_topk \in TopkArgs
    /\ \E n \in 1 .. MaxAccBatch :
          /\ a_output \in [1 .. n -> Rows]
          /\ a_target \in {[ndim |-> 1, val |-> v] : v \in [1 .. n -> Classes]}
                          \cup {[ndim |-> 2, val |-> v] : v \in [1 .. n -> TargetRows]}
    /\ a_res = <<>>
    /\ a_pc = "call"

IdleAcc ==
    /\ a_topk = DefaultTopk
    /\ a_output = <<RowAsc>>
    /\ a_target = [ndim |-> 1, val |-> <<0>>]
    /\ a_res = <<>>
    /\ a_pc = "idle"

\* one call of accuracy
Accuracy ==
    /\ a_pc = "call"
    /\ \E labels \in TargetLabels(a_target) :
       \E pred \in PredChoices(a_output, SeqMax(a_topk)) :
          a_res' = AccuracyRes(pred, labels, a_topk)
    /\ a_pc' = "done"
    /\ UNCHANGED <<a_output, a_target, a_topk>>
    /\ UNCHANGED <<procVars, dataVars>>

(***************************************************************************)
(* The three procedures.  A call record names the object called, the       *)
(* method, the batch index (-1 outside the loop) and whether gradient      *)
(* tracking is enabled at the call.                                        *)
(***************************************************************************)
C(on, op, b) == [on |-> on, op |-> op, batch |-> b, grad |-> TRUE]
NoGrad(c) == [c EXCEPT !.grad = FALSE]

When(cond, s) == IF cond THEN s ELSE <<>>

\* if use_cuda: data, target = data.cuda(), target.cuda()
CudaMove(b, cuda) == When(cuda, <<C("data", "cuda", b), C("target", "cuda", b)>>)

\* train_mixed_precision lines 30-32
MixedPrologue == <<C("model", "train", -1), C("train_sampler", "set_epoch", -1)>>

\* train_mixed_precision's iteration with the optimizer step taken right after
\* backward, before the gradients are synchronized and unscaled
MixedBatchCallsStepFirst(b, cuda, wb, line) ==
    <<C("time", "perf_counter", b)>>
    \o CudaMove(b, cuda)
    \o <<C("optimizer", "zero_grad", b),
         C("autocast", "enter", b),
         C("model", "forward", b),
         C("criterion", "call", b),
         C("autocast", "exit", b),
         C("scaler", "scale", b),
         C("loss", "backward", b),
         C("optimizer", "skip_synchronize.enter", b),
         C("scaler", "step", b),
         C("optimizer", "skip_synchronize.exit", b),
         C("optimizer", "synchronize", b),
         C("scaler", "unscale_", b),
         C("scaler", "update", b)>>
    \o When(wb, <<C("time", "perf_counter", b),
                  C("loss", "item", b),
                  C("wandb_run", "log", b)>>)
    \o When(line, <<C("loss", "item", b),
                    C("scaler", "get_scale", b),
                    C("console", "print", b)>>)

\* one iteration of train_mixed_precision's loop: wb = the dashboard branch is
\* taken, line = the console branch is taken
MixedBatchCalls(b, cuda, wb, line) ==
    <<C("time", "perf_counter", b)>>
    \o CudaMove(b, cuda)
    \o <<C("optimizer", "zero_grad", b),
         C("autocast", "enter", b),
         C("model", "forward", b),
         C("criterion", "call", b),
         C("autocast", "exit", b),
         C("scaler", "scale", b),
         C("loss", "backward", b),
         C("optimizer", "synchronize", b),
         C("scaler", "unscale_", b),
         C("optimizer", "skip_synchronize.enter", b),
         C("scaler", "step", b),
         C("optimizer", "skip_synchronize.exit", b),
         C("scaler", "update", b)>>
    \o When(wb, <<C("time", "perf_counter", b),
                  C("loss", "item", b),
                  C("wandb_run", "log", b)>>)
    \o When(line, <<C("loss", "item", b),
                    C("scaler", "get_scale", b),
                    C("console", "print", b)>>)

\* train_epoch lines 79-81
FullPrologue == <<C("model", "train", -1), C("train_sampler", "set_epoch", -1)>>

\* train_epoch's iteration with the mixed-precision step's
\* optimizer.synchronize() left in
FullBatchCallsSynchronized(b, cuda, wb, line) ==
    <<C("time", "perf_counter", b)>>
    \o CudaMove(b, cuda)
    \o <<C("optimizer", "zero_grad", b),
         C("model", "forward", b),
         C("criterion", "call", b),
         C("loss", "backward", b),
         C("optimizer", "synchronize", b),
         C("optimizer", "step", b)>>
    \o When(wb, <<C("torch.cuda", "synchronize", b),
                  C("time", "perf_counter", b),
                  C("loss", "item", b),
                  C("wandb_run", "log", b)>>)
    \o When(line, <<C("loss", "item", b),
                    C("console", "print", b)>>)

\* one iteration of train_epoch's loop
FullBatchCalls(b, cuda, wb, line) ==
    <<C("time", "perf_counter", b)>>
    \o CudaMove(b, cuda)
    \o <<C("optimizer", "zero_grad", b),
         C("model", "forward", b),
         C("criterion", "call", b),
         C("loss", "backward", b),
         C("optimizer", "step", b)>>
    \o When(wb, <<C("torch.cuda", "synchronize", b),
                  C("time", "perf_counter", b),
                  C("loss", "item", b),
                  C("wandb_run", "log", b)>>)
    \o When(line, <<C("loss", "item", b),
                    C("console", "print", b)>>)

\* test line 118
TestPrologue == <<C("model", "eval", -1), C("torch", "inference_mode.enter", -1)>>

\* test's iteration as a training iteration: gradients tracked, optimizer stepped
TestBatchCallsTraining(b, cuda) ==
    CudaMove(b, cuda)
    \o <<C("model", "forward", b),
         C("criterion", "call", b),
         C("loss", "item", b),
         C("optimizer", "step", b),
         C("accuracy", "call", b),
         C("batch_acc1", "item", b),
         C("batch_acc5", "item", b)>>

\* one iteration of test's loop, inside torch.inference_mode()
TestBatchCalls(b, cuda) ==
    CudaMove(b, cuda)
    \o <<NoGrad(C("model", "forward", b)),
         NoGrad(C("criterion", "call", b)),
         NoGrad(C("loss", "item", b)),
         NoGrad(C("accuracy", "call", b)),
         NoGrad(C("batch_acc1", "item", b)),
         NoGrad(C("batch_acc5", "item", b))>>

\* test lines 136-147, after the loop
TestEpilogue(wb) ==
    <<C("torch", "inference_mode.exit", -1)>>
    \o When(wb, <<C("wandb_run", "log", -1)>>)
    \o <<C("console", "print", -1)>>

\* the dashboard branch taken whether or not a run is supplied
LogsAlways(wb) == TRUE

\* if wandb_run:
LogsDashboard(wb) == wb

\* the interval counted from 1: if (batch_idx + 1) % log_interval == 0
PrintsLineOffByOne(b, interval) == (b + 1) % interval = 0

\* if batch_idx % log_interval == 0:
PrintsLine(b, interval) == b % interval = 0

\* the step counted from epoch, not epoch - 1
GlobalStepFromEpoch(e, loader_len, b) == e * loader_len + b

\* global_step = (epoch - 1) * len(train_loader) + batch_idx
GlobalStep(e, loader_len, b) == (e - 1) * loader_len + b

\* "train/samples_seen": global_step * len(data)
SamplesSeen(global_step, data_len) == global_step * data_len

\* the dictionary given to wandb_run.log by the training procedures, and step=
TrainInfo(e, loader_len, b, data_len) ==
    LET global_step == GlobalStep(e, loader_len, b) IN
    [kind |-> "train", epoch |-> e, step |-> global_step,
     samples_seen |-> SamplesSeen(global_step, data_len),
     acc1 |-> <<0, 1>>, acc5 |-> <<0, 1>>]

\* the dictionary given to wandb_run.log by test (no step)
TestInfo(e, a1, a5) ==
    [kind |-> "test", epoch |-> e, step |-> -1, samples_seen |-> -1,
     acc1 |-> a1, acc5 |-> a5]

\* the progress line of the training procedures
TrainLine(e, b, data_len) ==
    [kind |-> "train", epoch |-> e, batch |-> b, processed |-> b * data_len,
     acc1 |-> <<0, 1>>, acc5 |-> <<0, 1>>]

\* the line test prints
TestLine(e, a1, a5) ==
    [kind |-> "test", epoch |-> e, batch |-> -1, processed |-> -1,
     acc1 |-> a1, acc5 |-> a5]

\* parameter updates a call sequence applies: optimizer.step(), and
\* scaler.step(optimizer) unless the scaler found inf/nan gradients
ParamUpdates(cs, found_inf) ==
    Cardinality({i \in 1 .. Len(cs) :
        \/ cs[i].on = "optimizer" /\ cs[i].op = "step"
        \/ cs[i].on = "scaler" /\ cs[i].op = "step" /\ ~found_inf})

\* calls that write the gradients or the optimizer's state
OptimizerWrites(cs) ==
    Cardinality({i \in 1 .. Len(cs) :
        \/ cs[i].on = "optimizer" /\ cs[i].op \in {"zero_grad", "step", "synchronize"}
        \/ cs[i].on = "scaler" /\ cs[i].op \in {"step", "unscale_"}
        \/ cs[i].on = "loss" /\ cs[i].op = "backward" /\ cs[i].grad})

RECURSIVE SeqSum(_)
SeqSum(s) == IF s = <<>> THEN 0 ELSE s[1] + SeqSum(Tail(s))

\* the loaders: batch sizes, every batch non-empty
Loaders == UNION {[1 .. n -> 1 .. MaxBatchSize] : n \in 0 .. MaxBatches}

InitProc ==
    /\ proc \in {"mixed", "full", "test"}
    /\ sizes \in Loaders
    /\ proc = "test" => sizes # <<>>
    /\ log_interval \in 1 .. MaxLogInterval
    /\ proc = "test" => log_interval = 1
    /\ use_cuda \in BOOLEAN
    /\ wandb_run \in BOOLEAN
    /\ pc = "idle"
    /\ epoch = 0
    /\ batch_idx = 0
    /\ calls = <<>>
    /\ wandb_log = <<>>
    /\ console = <<>>
    /\ params = 0
    /\ opt_state = 0
    /\ model_mode = "train"
    /\ acc1 = <<0, 1>> /\ acc5 = <<0, 1>>
    /\ shard_n = 0 /\ shard_top1 = 0 /\ shard_top5 = 0

IdleProc ==
    /\ proc = "none" /\ sizes = <<>> /\ log_interval = 1
    /\ use_cuda = FALSE /\ wandb_run = FALSE
    /\ pc = "idle" /\ epoch = 0 /\ batch_idx = 0
    /\ calls = <<>> /\ wandb_log = <<>> /\ console = <<>>
    /\ params = 0 /\ opt_state = 0 /\ model_mode = "train"
    /\ acc1 = <<0, 1>> /\ acc5 = <<0, 1>>
    /\ shard_n = 0 /\ shard_top1 = 0 /\ shard_top5 = 0

testVars == <<acc1, acc5, shard_n, shard_top1, shard_top5>>
argVars == <<proc, sizes, log_interval, use_cuda, wandb_run>>

\* the caller invokes the training procedure for the next epoch
CallTrain(p, prologue) ==
    /\ proc = p /\ pc = "idle" /\ epoch < MaxEpochs
    /\ epoch' = epoch + 1
    /\ pc' = "loop"
    /\ batch_idx' = 0
    /\ calls' = prologue
    /\ model_mode' = "train"
    /\ UNCHANGED <<argVars, wandb_log, console, params, opt_state, testVars>>
    /\ UNCHANGED <<accVars, dataVars>>

\* one iteration of a training loop making the calls cs
TrainBatch(p, cs, found_inf) ==
    LET data_len == sizes[batch_idx + 1] IN
    /\ proc = p /\ pc = "loop" /\ batch_idx < Len(sizes)
    /\ calls' = calls \o cs
    /\ params' = params + ParamUpdates(cs, found_inf)
    /\ opt_state' = opt_state + OptimizerWrites(cs)
    /\ wandb_log' = IF LogsDashboard(wandb_run)
                    THEN Append(wandb_log, TrainInfo(epoch, Len(sizes), batch_idx, data_len))
                    ELSE wandb_log
    /\ console' = IF PrintsLine(batch_idx, log_interval)
                  THEN Append(console, TrainLine(epoch, batch_idx, data_len))
                  ELSE console
    /\ batch_idx' = batch_idx + 1
    /\ UNCHANGED <<argVars, pc, epoch, model_mode, testVars>>
    /\ UNCHANGED <<accVars, dataVars>>

\* the loader is exhausted: the training procedure returns
ReturnTrain(p) ==
    /\ proc = p /\ pc = "loop" /\ batch_idx = Len(sizes)
    /\ pc' = "idle"
    /\ UNCHANGED <<argVars, epoch, batch_idx, calls, wandb_log, console, params,
                   opt_state, model_mode, testVars>>
    /\ UNCHANGED <<accVars, dataVars>>

CallTrainMixed == CallTrain("mixed", MixedPrologue)

TrainMixedBatch ==
    \E found_inf \in BOOLEAN :
        TrainBatch("mixed",
                   MixedBatchCalls(batch_idx, use_cuda, LogsDashboard(wandb_run),
                                   PrintsLine(batch_idx, log_interval)),
                   found_inf)

ReturnTrainMixed == ReturnTrain("mixed")

CallTrainEpoch == CallTrain("full", FullPrologue)

TrainEpochBatch ==
    TrainBatch("full",
               FullBatchCalls(batch_idx, use_cuda, LogsDashboard(wandb_run),
                              PrintsLine(batch_idx, log_interval)),
               FALSE)

ReturnTrainEpoch == ReturnTrain("full")

\* the examples the test loader draws from: the model's score row and the label
TestRows == {RowAsc, RowDesc}
TestLabels == {0, 1, NumClasses - 1}
TestExamples == [row : TestRows, label : TestLabels]

\* len(test_sampler): the loader partitions the worker's shard into batches
SamplerLen(loader) == SeqSum(loader)

\* the label of the example is among its k highest scores (rows without ties)
InTopK(ex, k) == Cardinality({c \in Classes : ex.row[c] > ex.row[ex.label]}) < k

\* the caller invokes test once, for some epoch
CallTest ==
    /\ proc = "test" /\ pc = "idle" /\ epoch = 0
    /\ epoch' \in 1 .. MaxEpochs
    /\ pc' = "loop"
    /\ batch_idx' = 0
    /\ calls' = TestPrologue
    /\ model_mode' = "eval"
    /\ acc1' = <<0, 1>> /\ acc5' = <<0, 1>>
    /\ shard_n' = 0 /\ shard_top1' = 0 /\ shard_top5' = 0
    /\ UNCHANGED <<argVars, wandb_log, console, params, opt_state>>
    /\ UNCHANGED <<accVars, dataVars>>

\* one iteration of test's loop over the batch `batch` of examples
TestBatchOn(batch) ==
    LET n == Len(batch)
        output == [i \in 1 .. n |-> batch[i].row]
        target == [ndim |-> 1, val |-> [i \in 1 .. n |-> batch[i].label]]
        cs == TestBatchCalls(batch_idx, use_cuda)
    IN
    /\ \E labels \in TargetLabels(target) :
       \E pred \in PredChoices(output, SeqMax(DefaultTopk)) :
          LET res == AccuracyRes(pred, labels, DefaultTopk) IN
          /\ acc1' = RatAdd(acc1, res[1])
          /\ acc5' = RatAdd(acc5, res[2])
    /\ calls' = calls \o cs
    /\ params' = params + ParamUpdates(cs, FALSE)
    /\ opt_state' = opt_state + OptimizerWrites(cs)
    /\ shard_n' = shard_n + n
    /\ shard_top1' = shard_top1 + Cardinality({i \in 1 .. n : InTopK(batch[i], 1)})
    /\ shard_top5' = shard_top5 + Cardinality({i \in 1 .. n : InTopK(batch[i], 5)})
    /\ batch_idx' = batch_idx + 1
    /\ UNCHANGED <<argVars, pc, epoch, model_mode, wandb_log, console>>
    /\ UNCHANGED <<accVars, dataVars>>

TestBatch ==
    /\ proc = "test" /\ pc = "loop" /\ batch_idx < Len(sizes)
    /\ \E batch \in [1 .. sizes[batch_idx + 1] -> TestExamples] : TestBatchOn(batch)

\* acc1 /= len(test_sampler)
Averaged(total, sampler_len) == RatDiv(total, sampler_len)

\* the loader is exhausted: average, log, print, return
ReturnTest ==
    LET a1 == Averaged(acc1, SamplerLen(sizes))
        a5 == Averaged(acc5, SamplerLen(sizes))
    IN
    /\ proc = "test" /\ pc = "loop" /\ batch_idx = Len(sizes)
    /\ acc1' = a1 /\ acc5' = a5
    /\ wandb_log' = IF LogsDashboard(wandb_run)
                    THEN Append(wandb_log, TestInfo(epoch, a1, a5))
                    ELSE wandb_log
    /\ console' = Append(console, TestLine(epoch, a1, a5))
    /\ calls' = calls \o TestEpilogue(LogsDashboard(wandb_run))
    /\ pc' = "idle"
    /\ UNCHANGED <<argVars, epoch, batch_idx, params, opt_state, model_mode,
                   shard_n, shard_top1, shard_top5>>
    /\ UNCHANGED <<accVars, dataVars>>

(***************************************************************************)
(* Specifications.                                                         *)
(***************************************************************************)
Init == InitProc /\ IdleAcc /\ IdleData

Next ==
    \/ CallTrainMixed \/ TrainMixedBatch \/ ReturnTrainMixed
    \/ CallTrainEpoch \/ TrainEpochBatch \/ ReturnTrainEpoch
    \/ CallTest \/ TestBatch \/ ReturnTest

\* the procedures, each called for epochs 1, 2, ... in order
Spec == Init /\ [][Next]_vars

InitAccuracy == IdleProc /\ InitAcc /\ IdleData

NextAccuracy == Accuracy

\* accuracy applied to every drawn batch
SpecAccuracy == InitAccuracy /\ [][NextAccuracy]_vars

InitLoadData == IdleProc /\ IdleAcc /\ InitData

NextLoadData == \E rank \in 0 .. (world_size - 1) : LoadData(rank)

\* load_data called by the workers of a job, one call per rank
SpecLoadData == InitLoadData /\ [][NextLoadData]_vars

(***************************************************************************)
(* Properties.  Helpers over the recorded calls of the current invocation. *)
(***************************************************************************)
CallIdx(on, op, b) ==
    {i \in 1 .. Len(calls) : calls[i].on = on /\ calls[i].op = op /\ calls[i].batch = b}
Once(on, op, b) == Cardinality(CallIdx(on, op, b)) = 1
Never(on, op, b) == CallIdx(on, op, b) = {}
At(on, op, b) == CHOOSE i \in CallIdx(on, op, b) : TRUE
Before(on1, op1, on2, op2, b) == At(on1, op1, b) < At(on2, op2, b)
Done == 0 .. (batch_idx - 1)
Training == proc \in {"mixed", "full"}
InOrder(ops, b) ==
    /\ \A k \in 1 .. Len(ops) : Once(ops[k][1], ops[k][2], b)
    /\ \A k \in 1 .. (Len(ops) - 1) :
          Before(ops[k][1], ops[k][2], ops[k + 1][1], ops[k + 1][2], b)
BatchesInOrder ==
    /\ \A i \in 1 .. Len(calls) : calls[i].batch < batch_idx
    /\ \A i, j \in 1 .. Len(calls) : i < j => calls[i].batch <= calls[j].batch

\* C1: in train_mixed_precision every completed batch makes, each exactly once
\* and in this order, optimizer.zero_grad, the forward pass and the loss inside
\* autocast, scaler.scale(loss).backward, optimizer.synchronize,
\* scaler.unscale_, scaler.step inside optimizer.skip_synchronize and
\* scaler.update; the calls of a batch all precede the calls of the next one.
C1_MixedOrder ==
    proc = "mixed" =>
        /\ BatchesInOrder
        /\ \A b \in Done :
              InOrder(<< <<"optimizer", "zero_grad">>, <<"autocast", "enter">>,
                         <<"model", "forward">>, <<"criterion", "call">>,
                         <<"autocast", "exit">>, <<"scaler", "scale">>,
                         <<"loss", "backward">>, <<"optimizer", "synchronize">>,
                         <<"scaler", "unscale_">>,
                         <<"optimizer", "skip_synchronize.enter">>,
                         <<"scaler", "step">>,
                         <<"optimizer", "skip_synchronize.exit">>,
                         <<"scaler", "update">> >>, b)

C1_Witness ==
    /\ proc = "mixed" /\ epoch = 2 /\ batch_idx = 2 /\ pc = "idle"
    /\ Before("optimizer", "synchronize", "scaler", "step", 1)

FullShape ==
    /\ BatchesInOrder
    /\ \A b \in Done :
          InOrder(<< <<"optimizer", "zero_grad">>, <<"model", "forward">>,
                     <<"criterion", "call">>, <<"loss", "backward">>,
                     <<"optimizer", "step">> >>, b)
NoScalerCall == \A i \in 1 .. Len(calls) : calls[i].on \notin {"scaler", "autocast"}

\* C2 as stated: train_epoch has the shape zero_grad, forward, loss, backward,
\* optimizer step and makes no loss-scaling call and no synchronization call
\* in any batch, whatever use_cuda, log_interval and wandb_run are.
C2_NoSynchronization ==
    proc = "full" =>
        /\ FullShape
        /\ NoScalerCall
        /\ \A i \in 1 .. Len(calls) :
              calls[i].op \notin {"synchronize", "skip_synchronize.enter",
                                  "skip_synchronize.exit"}

\* C2 amended: train_epoch has that shape, makes no loss-scaling call and no
\* gradient synchronization call (optimizer.synchronize, skip_synchronize);
\* it calls torch.cuda.synchronize once per batch, after the optimizer step,
\* exactly when a dashboard run is supplied.
C2_NoGradientSynchronization ==
    proc = "full" =>
        /\ FullShape
        /\ NoScalerCall
        /\ \A i \in 1 .. Len(calls) :
              calls[i].op \in {"synchronize", "skip_synchronize.enter",
                               "skip_synchronize.exit"}
                  => calls[i].on = "torch.cuda"
        /\ \A b \in Done :
              IF wandb_run
              THEN /\ Once("torch.cuda", "synchronize", b)
                   /\ Before("optimizer", "step", "torch.cuda", "synchronize", b)
              ELSE Never("torch.cuda", "synchronize", b)

C2_Witness ==
    /\ proc = "full" /\ wandb_run /\ ~use_cuda /\ batch_idx = 2 /\ pc = "idle"
    /\ Once("torch.cuda", "synchronize", 1)

StepOn == IF proc = "mixed" THEN "scaler" ELSE "optimizer"

\* C6: in both training procedures the progress line of a batch is printed
\* if and only if its index is a multiple of log_interval, after the batch's
\* optimizer step, with and without a dashboard run.
C6_ConsoleInterval ==
    Training =>
        \A b \in Done :
            IF b % log_interval = 0
            THEN /\ Once("console", "print", b)
                 /\ Before(StepOn, "step", "console", "print", b)
            ELSE Never("console", "print", b)

C6_Witness ==
    /\ Training /\ log_interval = 2 /\ ~wandb_run /\ batch_idx = 2
    /\ Once("console", "print", 0) /\ Never("console", "print", 1)

Signature(c) == <<c.on, c.op, c.batch>>
OnTrainingObject(c) == c.on \in {"model", "optimizer", "scaler"}
IsGetScale(c) == c.on = "scaler" /\ c.op = "get_scale"
OnTrainingObjectWrite(c) == OnTrainingObject(c) /\ ~IsGetScale(c)
Signatures(cs) == [i \in 1 .. Len(cs) |-> Signature(cs[i])]

\* the calls on model, optimizer and scaler that depend on the procedure and
\* on the batches alone
ExpectedBatch(p, b) ==
    IF p = "mixed"
    THEN << <<"optimizer", "zero_grad", b>>, <<"model", "forward", b>>,
            <<"scaler", "scale", b>>, <<"optimizer", "synchronize", b>>,
            <<"scaler", "unscale_", b>>, <<"optimizer", "skip_synchronize.enter", b>>,
            <<"scaler", "step", b>>, <<"optimizer", "skip_synchronize.exit", b>>,
            <<"scaler", "update", b>> >>
    ELSE IF p = "full"
    THEN << <<"optimizer", "zero_grad", b>>, <<"model", "forward", b>>,
            <<"optimizer", "step", b>> >>
    ELSE << <<"model", "forward", b>> >>
RECURSIVE ExpectedBatches(_, _)
ExpectedBatches(p, n) ==
    IF n = 0 THEN <<>> ELSE ExpectedBatches(p, n - 1) \o ExpectedBatch(p, n - 1)
ExpectedCalls(p, n) ==
    << <<"model", IF p = "test" THEN "eval" ELSE "train", -1>> >> \o ExpectedBatches(p, n)
NoLogWithoutRun ==
    ~wandb_run => /\ wandb_log = <<>>
                  /\ \A i \in 1 .. Len(calls) : calls[i].on # "wandb_run"

\* C7 as stated: the calls made on the model, the optimizer and the scaler
\* are a function of the procedure and the loader alone (so two runs that
\* differ in wandb_run and log_interval make the same ones), and without a
\* dashboard run no log call is made.
C7_SameCalls ==
    epoch >= 1 =>
        /\ Signatures(SelectSeq(calls, OnTrainingObject)) = ExpectedCalls(proc, batch_idx)
        /\ NoLogWithoutRun

\* C7 amended: the same, apart from the read-only scaler.get_scale() that
\* train_mixed_precision makes for each console line, once per batch whose
\* index is a multiple of log_interval.
C7_SameCallsButGetScale ==
    epoch >= 1 =>
        /\ Signatures(SelectSeq(calls, OnTrainingObjectWrite)) = ExpectedCalls(proc, batch_idx)
        /\ NoLogWithoutRun
        /\ \A b \in Done :
              IF proc = "mixed" /\ b % log_interval = 0
              THEN Once("scaler", "get_scale", b)
              ELSE Never("scaler", "get_scale", b)

C7_Witness ==
    /\ proc = "mixed" /\ wandb_run /\ log_interval = 2 /\ batch_idx = 2
    /\ Once("wandb_run", "log", 1) /\ Once("scaler", "get_scale", 0)

\* C8: test puts the model in evaluation mode before the first batch, runs
\* every forward pass without gradient tracking, calls no backward, zero_grad,
\* optimizer step or scaler operation, and leaves the parameters and the
\* optimizer state as they were before the call.
C8_TestFrame ==
    (proc = "test" /\ epoch >= 1) =>
        /\ model_mode = "eval"
        /\ calls[1] = C("model", "eval", -1)
        /\ \A i \in 1 .. Len(calls) :
              /\ calls[i].op = "forward" => ~calls[i].grad
              /\ calls[i].op \notin {"backward", "zero_grad", "step"}
              /\ calls[i].on # "scaler"
        /\ params = 0
        /\ opt_state = 0

C8_Witness ==
    /\ proc = "test" /\ pc = "idle" /\ epoch >= 1 /\ batch_idx = 2
    /\ Once("model", "forward", 1)

\* C9: with a dashboard run supplied and the procedure called for epochs
\* 1, 2, ... with the same loader, the steps given to wandb_run.log are
\* 0, 1, 2, ...: each log call uses the step after the previous one's, also
\* across epochs, and after E epochs of L batches E*L steps are logged.
C9_ConsecutiveSteps ==
    (Training /\ wandb_run) =>
        /\ \A i \in 1 .. Len(wandb_log) : wandb_log[i].step = i - 1
        /\ Len(wandb_log) = (epoch - 1) * Len(sizes) + batch_idx \/ epoch = 0

C9_Witness ==
    /\ Training /\ wandb_run /\ epoch = 2 /\ pc = "idle" /\ Len(sizes) = 2
    /\ Len(wandb_log) = 4 /\ wandb_log[3].epoch = 2 /\ wandb_log[3].step = 2

\* C10: the "train/samples_seen" value never decreases from one logged
\* training batch to the next, within an epoch and across epochs.
C10_SamplesSeenMonotone ==
    Training =>
        \A i \in 1 .. (Len(wandb_log) - 1) :
            wandb_log[i].samples_seen <= wandb_log[i + 1].samples_seen

\* C4: the acc1 and acc5 values test logs and prints are the percentages of
\* the shard's examples whose label is among the 1 and 5 highest scores.
C4_ShardAccuracy ==
    (proc = "test" /\ pc = "idle" /\ epoch >= 1) =>
        /\ RatEq(acc1, <<100 * shard_top1, shard_n>>)
        /\ RatEq(acc5, <<100 * shard_top5, shard_n>>)
        /\ console[Len(console)].acc1 = acc1
        /\ console[Len(console)].acc5 = acc5

Ranks == 0 .. (world_size - 1)
Built(r) == train_shard[r] # Unbuilt
AllBuilt == \A r \in Ranks : Built(r)
Disjoint(shard) ==
    \A r1, r2 \in Ranks :
        (r1 # r2 /\ Built(r1) /\ Built(r2)) => Range(shard[r1]) \cap Range(shard[r2]) = {}
Covering(shard, n) == UNION {Range(shard[r]) : r \in Ranks} = 0 .. (n - 1)
EqualLength(shard, n) ==
    \A r \in Ranks : Built(r) => Len(shard[r]) * world_size \in n .. (n + world_size - 1)

\* C3 as stated: for every dataset size and world size, the samplers of two
\* workers with different ranks yield disjoint sets of indices, for the
\* training and for the test sampler.
C3_DisjointShards == Disjoint(train_shard) /\ Disjoint(test_shard)

\* C3 amended: the shards of two ranks are disjoint when the dataset size is
\* a multiple of world_size; otherwise the sampler pads the index list with
\* repeated indices and some index is in the shards of two ranks.  In both
\* cases every shard has ceil(size / world_size) indices and the shards of
\* all ranks together cover the dataset.
C3_DisjointIffDivisible ==
    /\ train_len % world_size = 0 => Disjoint(train_shard)
    /\ test_len % world_size = 0 => Disjoint(test_shard)
    /\ EqualLength(train_shard, train_len) /\ EqualLength(test_shard, test_len)
    /\ AllBuilt =>
          /\ Covering(train_shard, train_len) /\ Covering(test_shard, test_len)
          /\ train_len % world_size # 0 => ~Disjoint(train_shard)
          /\ test_len % world_size # 0 => ~Disjoint(test_shard)

C3_Witness ==
    /\ AllBuilt /\ world_size = 2 /\ train_len = 4 /\ test_len = 3
    /\ Disjoint(train_shard) /\ ~Disjoint(test_shard)

\* the indices a 2-D target row may name as the true label
LabelSet(i) ==
    IF a_target.ndim = 1 THEN {a_target.val[i]}
    ELSE {c \in Classes : \A d \in Classes : a_target.val[i][d] <= a_target.val[i][c]}
Higher(i, l) == {c \in Classes : a_output[i][c] > a_output[i][l]}
NotLower(i, l) == {c \in Classes \ {l} : a_output[i][c] >= a_output[i][l]}
\* the label is among the k highest scores however equal scores are ordered
SureHit(i, k) == \A l \in LabelSet(i) : Cardinality(NotLower(i, l)) < k
\* the label is among the k highest scores for some order of equal scores
MaybeHit(i, k) == \E l \in LabelSet(i) : Cardinality(Higher(i, l)) < k
Examples == 1 .. Len(a_output)
Percent(n) == <<100 * n, Len(a_output)>>

\* C5: accuracy returns, for each k of topk in order, 100 * (examples whose
\* true label is among the k highest-scored classes) / batch_size, the true
\* label of a 2-D target row being the index of its largest entry (where
\* scores or target entries are equal, the count is of one of the orders the
\* framework may choose); each result is in 0..100 and the result for a
\* smaller k is never greater than the result for a larger k.
C5_TopKAccuracy ==
    a_pc = "done" =>
        /\ Len(a_res) = Len(a_topk)
        /\ \A j \in 1 .. Len(a_topk) :
              /\ RatLeq(Percent(Cardinality({i \in Examples : SureHit(i, a_topk[j])})), a_res[j])
              /\ RatLeq(a_res[j], Percent(Cardinality({i \in Examples : MaybeHit(i, a_topk[j])})))
              /\ RatLeq(<<0, 1>>, a_res[j]) /\ RatLeq(a_res[j], <<100, 1>>)
        /\ \A j1, j2 \in 1 .. Len(a_topk) :
              a_topk[j1] <= a_topk[j2] => RatLeq(a_res[j1], a_res[j2])

C5_Witness ==
    /\ a_pc = "done" /\ a_topk = <<1, 5>> /\ a_target.ndim = 2 /\ Len(a_output) = 2
    /\ a_res = << <<50, 1>>, <<100, 1>> >>
    /\ \A i \in Examples : SureHit(i, 5) = MaybeHit(i, 5)
====
